---- MODULE Spec2Model ----
(***************************************************************************)
(* kRad: a geiger counter used as a hardware RNG (src/krad.c).             *)
(*                                                                         *)
(* The interrupt handler geiger_isr pushes pulse timestamps into a         *)
(* circular buffer of struct timespec; the hwrng entry points              *)
(* geiger_data_present, geiger_data_read and geiger_read report and drain  *)
(* it.  The model follows the code at the granularity of its accesses to   *)
(* shared memory: every load or store of buffer_head, buffer_tail, a       *)
(* buffer slot or a spinlock is one step, and purely local computation is  *)
(* folded into the step that precedes it.                                  *)
(***************************************************************************)
EXTENDS Integers, Sequences, FiniteSets, TLC

(***************************************************************************)
(* Bounds of the model.                                                    *)
(***************************************************************************)
\* log2 of the modelled page size: PAGE_SIZE == 2^PageShift
PageShift == 6
\* pulses the source delivers beyond one full buffer
ExtraPulses == 1

(***************************************************************************)
(* Program constants.                                                      *)
(***************************************************************************)
\* sizeof(struct timespec): two 64-bit longs
SizeofTimespec == 16
\* sizeof(u32), the byte count geiger_data_read reports
SizeofU32 == 4
\* width of u32 in bits
U32Bits == 32
\* ENOMEM, the value krad_init returns when the page allocation fails
ENOMEM == 12
\* nanoseconds per clock tick of the modelled time source (half a second)
NsecPerTick == (10 ^ 9) \div 2

PAGE_SIZE == 2 ^ PageShift

BUFFER_SIZE == PAGE_SIZE \div SizeofTimespec

MaxPulses == BUFFER_SIZE + ExtraPulses

\* execution contexts
Producers == {"irq0"}
Readers == {"rng0"}

\* the contexts of a deployment with two on each side
SmpProducers == Producers \cup {"irq1"}
SmpReaders == Readers \cup {"rng1"}

\* the pulses of a run with two contexts on each side
SmpPulses == 4

\* the interrupt lines the handler can be entered for
IrqLines == {17, 18}
AssignedIrq == 17

\* the negative errno values a failing kernel call hands to krad_init
Errnos == {-16}

Slots == 0 .. (BUFFER_SIZE - 1)

(***************************************************************************)
(* Pure helpers.                                                           *)
(***************************************************************************)
Min(a, b) == IF a <= b THEN a ELSE b

\* bitwise AND of a two's complement integer a with a non-negative mask b
RECURSIVE BitAnd(_, _)
BitAnd(a, b) ==
    IF b = 0 THEN 0
    ELSE (a % 2) * (b % 2) + 2 * BitAnd(a \div 2, b \div 2)

\* the low w bits of a non-negative integer
RECURSIVE LowBits(_, _)
LowBits(x, w) ==
    IF w = 0 \/ x = 0 THEN 0
    ELSE (x % 2) + 2 * LowBits(x \div 2, w - 1)

\* the cast (u32) applied to a long
CastU32(x) == LowBits(x, U32Bits)

\* linux/circ_buf.h
CIRC_CNT(h, t, size) == BitAnd(h - t, size - 1)

CIRC_SPACE(h, t, size) == CIRC_CNT(t, h + 1, size)

\* the cursor advance without the mask
NextIndex_unmasked(x) == x + 1

\* the cursor advance used by both sides: (x + 1) & (BUFFER_SIZE - 1)
NextIndex(x) == BitAnd(x + 1, BUFFER_SIZE - 1)

\* CURRENT_TIME at clock tick k, a normalised struct timespec
CURRENT_TIME(k) ==
    [tv_sec |-> k \div 2, tv_nsec |-> (k % 2) * NsecPerTick]

\* what a page from __get_free_page may hold before it is written
PageGarbage == { [tv_sec |-> -1, tv_nsec |-> -1],
                 [tv_sec |-> -2, tv_nsec |-> -2] }

\* the clean state of a caller's output buffer slot
Unwritten == [tv_sec |-> -9, tv_nsec |-> -9]

\* the byte counts a caller passes as max
ReadSizes ==
    {0, SizeofTimespec - 1, SizeofTimespec, 2 * SizeofTimespec - 1,
     2 * SizeofTimespec, 3 * SizeofTimespec, BUFFER_SIZE * SizeofTimespec}

\* slots of the caller's buffer
DataSlots == 0 .. (BUFFER_SIZE - 1)

(***************************************************************************)
(* State.                                                                  *)
(***************************************************************************)
VARIABLES
    buffer,         \* the page of struct timespec slots
    buffer_head,    \* next slot geiger_isr writes
    buffer_tail,    \* next slot a reader copies
    producer_lock,  \* spinlock of the ISR: 0 unlocked, 1 locked
    consumer_lock,  \* spinlock of the hwrng entry points
    geiger_irq,     \* the IRQ assigned to the pulse pin
    now,            \* ticks of the time source read by CURRENT_TIME
    isr_pc,         \* position of each geiger_isr invocation
    isr_t,          \* its local t
    isr_head,       \* its local head
    isr_tail,       \* its local tail
    pc,             \* position of each hwrng caller
    max,            \* geiger_read's argument max
    wait,           \* the argument wait
    head,           \* a reader's local head
    tail,           \* a reader's local tail
    p,              \* geiger_read's loop counter
    pulses_given,   \* geiger_read's local pulses_given
    printk_too_small, \* the call logged "max bytes smaller than the storage type"
    data,           \* the caller's buffer passed to geiger_read
    out,            \* the u32 the caller passed to geiger_data_read
    ret,            \* the value the entry point returns
    accepted,       \* history: every sample geiger_isr published, in order
    released,       \* history: how many times buffer_tail has moved on
    seen,           \* history: what was stored when a call loaded buffer_head
    quiet,          \* history: no geiger_isr ran since the call was entered
    mod_pc,         \* position of krad_init / krad_exit
    page,           \* the page behind buffer: "none", "allocated", "released"
    gpio,           \* the pulse pin: "free" or "requested"
    irq_line,       \* the handler on geiger_irq: "free" or "requested"
    hwrng,          \* geiger_rng: "unregistered" or "registered"
    init_ret        \* the value krad_init returns

shared == <<buffer, buffer_head, buffer_tail, producer_lock, consumer_lock,
            geiger_irq, now>>
isr_locals == <<isr_pc, isr_t, isr_head, isr_tail>>
rd_locals == <<pc, max, wait, head, tail, p, pulses_given, printk_too_small,
              data, out, ret>>
history == <<accepted, released, seen, quiet>>
lifecycle == <<mod_pc, page, gpio, irq_line, hwrng, init_ret>>
vars == <<shared, isr_locals, rd_locals, history, lifecycle>>

\* history: the samples published and not yet released, oldest first
Pending == SubSeq(accepted, released + 1, Len(accepted))

NotSeen == [live |-> << >>, released |-> 0]

CleanData == [k \in DataSlots |-> Unwritten]

\* occupancy as both sides compute it, on the shared cursors
Occupancy == CIRC_CNT(buffer_head, buffer_tail, BUFFER_SIZE)

\* the samples in the cyclic range [buffer_tail, buffer_head), oldest first
Live ==
    [k \in 1 .. Occupancy |-> buffer[BitAnd(buffer_tail + k - 1, BUFFER_SIZE - 1)]]

\* the statics of the module as the loader sets them up, on a fresh page
InitRing ==
    /\ \E g \in PageGarbage : buffer = [s \in Slots |-> g]
    /\ buffer_head = 0
    /\ buffer_tail = 0
    /\ producer_lock = 0
    /\ consumer_lock = 0
    /\ now = 0
    /\ accepted = << >>
    /\ released = 0

\* the contexts P of geiger_isr and R of the hwrng entry points at rest
InitContexts(P, R) ==
    /\ isr_pc = [i \in P |-> "idle"]
    /\ isr_t = [i \in P |-> CURRENT_TIME(0)]
    /\ isr_head = [i \in P |-> 0]
    /\ isr_tail = [i \in P |-> 0]
    /\ pc = [r \in R |-> "idle"]
    /\ max = [r \in R |-> 0]
    /\ wait = [r \in R |-> FALSE]
    /\ head = [r \in R |-> 0]
    /\ tail = [r \in R |-> 0]
    /\ p = [r \in R |-> 0]
    /\ pulses_given = [r \in R |-> 0]
    /\ printk_too_small = [r \in R |-> FALSE]
    /\ data = [r \in R |-> CleanData]
    /\ out = [r \in R |-> -1]
    /\ ret = [r \in R |-> 0]
    /\ seen = [r \in R |-> NotSeen]
    /\ quiet = [r \in R |-> FALSE]

InitStatics == InitRing /\ InitContexts(Producers, Readers)

\* the module in service: krad_init has returned 0
Init ==
    /\ InitStatics
    /\ geiger_irq = AssignedIrq
    /\ mod_pc = "returned"
    /\ page = "allocated"
    /\ gpio = "requested"
    /\ irq_line = "requested"
    /\ hwrng = "registered"
    /\ init_ret = 0

(***************************************************************************)
(* geiger_isr, one step per access to shared memory.                       *)
(***************************************************************************)
\* entry: the irq test and t = CURRENT_TIME
isr_entry(i, irq) ==
    /\ isr_pc[i] = "idle"
    /\ irq_line = "requested"
    /\ IF irq = geiger_irq
       THEN /\ now < MaxPulses
            /\ now' = now + 1
            /\ isr_t' = [isr_t EXCEPT ![i] = CURRENT_TIME(now + 1)]
            /\ isr_pc' = [isr_pc EXCEPT ![i] = "spin_lock"]
       ELSE /\ isr_pc' = [isr_pc EXCEPT ![i] = "return"]
            /\ UNCHANGED <<now, isr_t>>
    /\ quiet' = [r \in DOMAIN quiet |-> FALSE]
    /\ UNCHANGED <<lifecycle, buffer, buffer_head, buffer_tail, producer_lock,
                   consumer_lock, geiger_irq, isr_head, isr_tail,
                   rd_locals, accepted, released, seen>>

\* the ISR taking the readers' lock
isr_spin_lock_consumer(i) ==
    /\ isr_pc[i] = "spin_lock"
    /\ consumer_lock = 0
    /\ consumer_lock' = 1
    /\ isr_pc' = [isr_pc EXCEPT ![i] = "load_head"]
    /\ UNCHANGED <<lifecycle, buffer, buffer_head, buffer_tail, producer_lock,
                   geiger_irq, now, isr_t, isr_head, isr_tail,
                   rd_locals, history>>

\* spin_lock(&producer_lock)
isr_spin_lock(i) ==
    /\ isr_pc[i] = "spin_lock"
    /\ producer_lock = 0
    /\ producer_lock' = 1
    /\ isr_pc' = [isr_pc EXCEPT ![i] = "load_head"]
    /\ UNCHANGED <<lifecycle, buffer, buffer_head, buffer_tail, consumer_lock,
                   geiger_irq, now, isr_t, isr_head, isr_tail,
                   rd_locals, history>>

\* head = buffer_head
isr_load_head(i) ==
    /\ isr_pc[i] = "load_head"
    /\ isr_head' = [isr_head EXCEPT ![i] = buffer_head]
    /\ isr_pc' = [isr_pc EXCEPT ![i] = "load_tail"]
    /\ UNCHANGED <<lifecycle, shared, isr_t, isr_tail, rd_locals, history>>

\* tail = ACCESS_ONCE(buffer_tail)
isr_load_tail(i) ==
    /\ isr_pc[i] = "load_tail"
    /\ isr_tail' = [isr_tail EXCEPT ![i] = buffer_tail]
    /\ isr_pc' = [isr_pc EXCEPT ![i] = "store_slot"]
    /\ UNCHANGED <<lifecycle, shared, isr_t, isr_head, rd_locals, history>>

\* the admission test with the comparison off by one
isr_has_space_off_by_one(i) ==
    CIRC_CNT(isr_head[i], isr_tail[i], BUFFER_SIZE) <= BUFFER_SIZE - 1

\* the admission test accepting a buffer without space
isr_has_space_always(i) ==
    CIRC_SPACE(isr_head[i], isr_tail[i], BUFFER_SIZE) >= 0

\* the admission test not looking at the readers' cursor
isr_has_space_ignoring_tail(i) ==
    CIRC_SPACE(isr_head[i], isr_head[i], BUFFER_SIZE) >= 1

\* the admission test of geiger_isr
isr_has_space(i) == CIRC_SPACE(isr_head[i], isr_tail[i], BUFFER_SIZE) >= 1

\* the slot written before the admission test is looked at
isr_store_slot_unguarded(i) ==
    /\ isr_pc[i] = "store_slot"
    /\ buffer' = [buffer EXCEPT ![isr_head[i]] = isr_t[i]]
    /\ isr_pc' = [isr_pc EXCEPT ![i] =
                    IF CIRC_SPACE(isr_head[i], isr_tail[i], BUFFER_SIZE) >= 1
                    THEN "publish" ELSE "spin_unlock"]
    /\ UNCHANGED <<lifecycle, buffer_head, buffer_tail, producer_lock, consumer_lock,
                   geiger_irq, now, isr_t, isr_head, isr_tail,
                   rd_locals, history>>

\* the slot left as it was, the store to it not done before the publish
isr_store_slot_deferred(i) ==
    /\ isr_pc[i] = "store_slot"
    /\ buffer' = buffer
    /\ isr_pc' = [isr_pc EXCEPT ![i] =
                    IF isr_has_space(i) THEN "publish" ELSE "spin_unlock"]
    /\ UNCHANGED <<lifecycle, buffer_head, buffer_tail, producer_lock, consumer_lock,
                   geiger_irq, now, isr_t, isr_head, isr_tail,
                   rd_locals, history>>

\* a full buffer making room by dropping its oldest sample
isr_store_slot_drop_oldest(i) ==
    /\ isr_pc[i] = "store_slot"
    /\ buffer' = [buffer EXCEPT ![isr_head[i]] = isr_t[i]]
    /\ buffer_tail' = IF isr_has_space(i)
                      THEN buffer_tail ELSE NextIndex(isr_tail[i])
    /\ released' = IF buffer_tail' # buffer_tail
                    THEN released + 1 ELSE released
    /\ isr_pc' = [isr_pc EXCEPT ![i] = "publish"]
    /\ UNCHANGED <<lifecycle, buffer_head, producer_lock, consumer_lock,
                   geiger_irq, now, isr_t, isr_head, isr_tail,
                   rd_locals, accepted, seen, quiet>>

\* if(CIRC_SPACE(head, tail, BUFFER_SIZE) >= 1) buffer[head] = t
isr_store_slot(i) ==
    /\ isr_pc[i] = "store_slot"
    /\ IF isr_has_space(i)
       THEN /\ buffer' = [buffer EXCEPT ![isr_head[i]] = isr_t[i]]
            /\ isr_pc' = [isr_pc EXCEPT ![i] = "publish"]
       ELSE /\ buffer' = buffer
            /\ isr_pc' = [isr_pc EXCEPT ![i] = "spin_unlock"]
    /\ UNCHANGED <<lifecycle, buffer_head, buffer_tail, producer_lock, consumer_lock,
                   geiger_irq, now, isr_t, isr_head, isr_tail,
                   rd_locals, history>>

\* smp_store_release(&buffer_head, (head + 1) & (BUFFER_SIZE - 1))
isr_publish(i) ==
    /\ isr_pc[i] = "publish"
    /\ buffer_head' = NextIndex(isr_head[i])
    /\ accepted' = Append(accepted, isr_t[i])
    /\ isr_pc' = [isr_pc EXCEPT ![i] = "spin_unlock"]
    /\ UNCHANGED <<lifecycle, buffer, buffer_tail, producer_lock, consumer_lock,
                   geiger_irq, now, isr_t, isr_head, isr_tail,
                   rd_locals, released, seen, quiet>>

\* spin_unlock(&producer_lock)
isr_spin_unlock(i) ==
    /\ isr_pc[i] = "spin_unlock"
    /\ producer_lock' = 0
    /\ isr_pc' = [isr_pc EXCEPT ![i] = "return"]
    /\ UNCHANGED <<lifecycle, buffer, buffer_head, buffer_tail, consumer_lock,
                   geiger_irq, now, isr_t, isr_head, isr_tail,
                   rd_locals, history>>

\* return IRQ_HANDLED: the invocation's locals go out of scope
isr_return(i) ==
    /\ isr_pc[i] = "return"
    /\ isr_pc' = [isr_pc EXCEPT ![i] = "idle"]
    /\ isr_t' = [isr_t EXCEPT ![i] = CURRENT_TIME(0)]
    /\ isr_head' = [isr_head EXCEPT ![i] = 0]
    /\ isr_tail' = [isr_tail EXCEPT ![i] = 0]
    /\ UNCHANGED <<lifecycle, shared, rd_locals, history>>

geiger_isr ==
    \E i \in Producers :
        \/ \E irq \in IrqLines : isr_entry(i, irq)
        \/ isr_spin_lock(i)
        \/ isr_load_head(i)
        \/ isr_load_tail(i)
        \/ isr_store_slot(i)
        \/ isr_publish(i)
        \/ isr_spin_unlock(i)
        \/ isr_return(i)

(***************************************************************************)
(* The hwrng entry points.                                                 *)
(***************************************************************************)
\* history: no invocation of geiger_isr is in progress
ProducersIdle == \A i \in DOMAIN isr_pc : isr_pc[i] = "idle"

\* the history count after a store to buffer_tail
Release(n, old, new) == IF new # old THEN n + 1 ELSE n

\* spin_lock(&consumer_lock)
rd_spin_lock(r, at, to) ==
    /\ pc[r] = at
    /\ consumer_lock = 0
    /\ consumer_lock' = 1
    /\ pc' = [pc EXCEPT ![r] = to]
    /\ UNCHANGED <<lifecycle, buffer, buffer_head, buffer_tail, producer_lock,
                   geiger_irq, now, isr_locals, max, wait, head, tail, p,
                   pulses_given, printk_too_small, data, out, ret, history>>

\* head = smp_load_acquire(&buffer_head)
rd_load_head(r, at, to) ==
    /\ pc[r] = at
    /\ head' = [head EXCEPT ![r] = buffer_head]
    /\ seen' = [seen EXCEPT ![r] = [live |-> Pending, released |-> released]]
    /\ pc' = [pc EXCEPT ![r] = to]
    /\ UNCHANGED <<lifecycle, shared, isr_locals, max, wait, tail, p, pulses_given,
                   printk_too_small,
                   data, out, ret, accepted, released, quiet>>

(* geiger_data_present *)
present_call(r, w) ==
    /\ pc[r] = "idle"
    /\ hwrng = "registered"
    /\ wait' = [wait EXCEPT ![r] = w]
    /\ quiet' = [quiet EXCEPT ![r] = ProducersIdle]
    /\ pc' = [pc EXCEPT ![r] = "dp_spin_lock"]
    /\ UNCHANGED <<lifecycle, shared, isr_locals, max, head, tail, p, pulses_given,
                   printk_too_small,
                   data, out, ret, accepted, released, seen>>

present_spin_lock(r) == rd_spin_lock(r, "dp_spin_lock", "dp_load_head")

present_load_head(r) == rd_load_head(r, "dp_load_head", "dp_load_tail")

\* tail = buffer_tail
present_load_tail(r) ==
    /\ pc[r] = "dp_load_tail"
    /\ tail' = [tail EXCEPT ![r] = buffer_tail]
    /\ pc' = [pc EXCEPT ![r] = "dp_spin_unlock"]
    /\ UNCHANGED <<lifecycle, shared, isr_locals, max, wait, head, p, pulses_given,
                   printk_too_small,
                   data, out, ret, history>>

\* the size computed with the cursors exchanged
present_size_swapped(r) ==
    CIRC_CNT(tail[r], head[r], BUFFER_SIZE) * SizeofTimespec

\* size = CIRC_CNT(head, tail, BUFFER_SIZE) * sizeof(struct timespec)
present_size(r) == CIRC_CNT(head[r], tail[r], BUFFER_SIZE) * SizeofTimespec

\* spin_unlock(&consumer_lock); return size
present_spin_unlock(r) ==
    /\ pc[r] = "dp_spin_unlock"
    /\ consumer_lock' = 0
    /\ ret' = [ret EXCEPT ![r] = present_size(r)]
    /\ pc' = [pc EXCEPT ![r] = "dp_done"]
    /\ UNCHANGED <<lifecycle, buffer, buffer_head, buffer_tail, producer_lock,
                   geiger_irq, now, isr_locals, max, wait, head, tail, p,
                   pulses_given, printk_too_small, data, out, history>>

geiger_data_present ==
    \E r \in Readers :
        \/ \E w \in BOOLEAN : present_call(r, w)
        \/ present_spin_lock(r)
        \/ present_load_head(r)
        \/ present_load_tail(r)
        \/ present_spin_unlock(r)

(* geiger_data_read, the old hwrng API *)
data_read_call(r) ==
    /\ pc[r] = "idle"
    /\ hwrng = "registered"
    /\ quiet' = [quiet EXCEPT ![r] = ProducersIdle]
    /\ pc' = [pc EXCEPT ![r] = "dr_spin_lock"]
    /\ UNCHANGED <<lifecycle, shared, isr_locals, max, wait, head, tail, p,
                   pulses_given,
                   printk_too_small, data, out, ret, accepted, released, seen>>

\* geiger_data_read going on without taking consumer_lock
data_read_spin_lock_skipped(r) ==
    /\ pc[r] = "dr_spin_lock"
    /\ pc' = [pc EXCEPT ![r] = "dr_load_head"]
    /\ UNCHANGED <<lifecycle, shared, isr_locals, max, wait, head, tail, p,
                   pulses_given, printk_too_small, data, out, ret, history>>

data_read_spin_lock(r) == rd_spin_lock(r, "dr_spin_lock", "dr_load_head")

data_read_load_head(r) == rd_load_head(r, "dr_load_head", "dr_load_tail")

\* the test of geiger_data_read
data_read_has_data(h, t) == CIRC_CNT(h, t, BUFFER_SIZE) >= 1

\* tail = buffer_tail; if(CIRC_CNT(head, tail, BUFFER_SIZE) >= 1)
data_read_load_tail(r) ==
    /\ pc[r] = "dr_load_tail"
    /\ tail' = [tail EXCEPT ![r] = buffer_tail]
    /\ pc' = [pc EXCEPT ![r] =
                IF data_read_has_data(head[r], buffer_tail)
                THEN "dr_copy" ELSE "dr_spin_unlock"]
    /\ UNCHANGED <<lifecycle, shared, isr_locals, max, wait, head, p, pulses_given,
                   printk_too_small,
                   data, out, ret, history>>

\* the seconds field handed out instead of the nanoseconds
data_read_value_sec(sample) == CastU32(sample.tv_sec)

\* the value geiger_data_read hands out for a sample
data_read_value(sample) == CastU32(sample.tv_nsec)

\* *data = (u32) buffer[tail].tv_nsec
data_read_copy(r) ==
    /\ pc[r] = "dr_copy"
    /\ out' = [out EXCEPT ![r] = data_read_value(buffer[tail[r]])]
    /\ pc' = [pc EXCEPT ![r] = "dr_store_tail"]
    /\ UNCHANGED <<lifecycle, shared, isr_locals, max, wait, head, tail, p,
                   pulses_given, printk_too_small, data, ret, history>>

\* smp_store_release(&buffer_tail, (tail + 1) & (BUFFER_SIZE - 1)); bytes = 4
data_read_store_tail(r) ==
    /\ pc[r] = "dr_store_tail"
    /\ buffer_tail' = NextIndex(tail[r])
    /\ released' = Release(released, buffer_tail, buffer_tail')
    /\ ret' = [ret EXCEPT ![r] = SizeofU32]
    /\ pc' = [pc EXCEPT ![r] = "dr_spin_unlock"]
    /\ UNCHANGED <<lifecycle, buffer, buffer_head, producer_lock, consumer_lock,
                   geiger_irq, now, isr_locals, max, wait, head, tail, p,
                   pulses_given,
                   printk_too_small, data, out, accepted, seen, quiet>>

\* spin_unlock(&consumer_lock); return bytes
data_read_spin_unlock(r) ==
    /\ pc[r] = "dr_spin_unlock"
    /\ consumer_lock' = 0
    /\ pc' = [pc EXCEPT ![r] = "dr_done"]
    /\ UNCHANGED <<lifecycle, buffer, buffer_head, buffer_tail, producer_lock,
                   geiger_irq, now, isr_locals, max, wait, head, tail, p,
                   pulses_given, printk_too_small, data, out, ret, history>>

geiger_data_read ==
    \E r \in Readers :
        \/ data_read_call(r)
        \/ data_read_spin_lock(r)
        \/ data_read_load_head(r)
        \/ data_read_load_tail(r)
        \/ data_read_copy(r)
        \/ data_read_store_tail(r)
        \/ data_read_spin_unlock(r)

(* geiger_read, the new hwrng API *)
read_call(r, m, w) ==
    /\ pc[r] = "idle"
    /\ hwrng = "registered"
    /\ max' = [max EXCEPT ![r] = m]
    /\ wait' = [wait EXCEPT ![r] = w]
    /\ quiet' = [quiet EXCEPT ![r] = ProducersIdle]
    /\ pc' = [pc EXCEPT ![r] = "gr_spin_lock"]
    /\ UNCHANGED <<lifecycle, shared, isr_locals, head, tail, p, pulses_given,
                   printk_too_small,
                   data, out, ret, accepted, released, seen>>

read_spin_lock(r) == rd_spin_lock(r, "gr_spin_lock", "gr_load_head")

read_load_head(r) == rd_load_head(r, "gr_load_head", "gr_load_tail")

\* the pulses wanted, not limited by the pulses present
read_pulses_given_no_min(m, h, t) == m \div SizeofTimespec

\* the pulses wanted rounded up to a whole sample
read_pulses_given_round_up(m, h, t) ==
    Min((m + SizeofTimespec - 1) \div SizeofTimespec,
        CIRC_CNT(h, t, BUFFER_SIZE))

\* the pulses present counted one too many
read_pulses_given_plus_one(m, h, t) ==
    Min(m \div SizeofTimespec, CIRC_CNT(h, t, BUFFER_SIZE) + 1)

\* min(max / sizeof(struct timespec), CIRC_CNT(head, tail, BUFFER_SIZE))
read_pulses_given(m, h, t) ==
    Min(m \div SizeofTimespec, CIRC_CNT(h, t, BUFFER_SIZE))

\* if(!pulses_given) printk("... called with max bytes smaller than the
\* storage type")
read_logs_too_small(n) == n = 0

\* tail = buffer_tail; pulses_given = min(...); the printk; p = 0;
\* p < pulses_given
read_load_tail(r) ==
    /\ pc[r] = "gr_load_tail"
    /\ tail' = [tail EXCEPT ![r] = buffer_tail]
    /\ pulses_given' = [pulses_given EXCEPT ![r] =
                           read_pulses_given(max[r], head[r], buffer_tail)]
    /\ printk_too_small' = [printk_too_small EXCEPT ![r] =
                               read_logs_too_small(pulses_given'[r])]
    /\ p' = [p EXCEPT ![r] = 0]
    /\ pc' = [pc EXCEPT ![r] =
                IF 0 < pulses_given'[r] THEN "gr_copy" ELSE "gr_spin_unlock"]
    /\ UNCHANGED <<lifecycle, shared, isr_locals, max, wait, head, data, out, ret,
                   history>>

\* the slot the copy loop reads in iteration k: buffer[tail], tail never
\* being advanced by the loop
read_slot(t, k) == t

\* ((struct timespec*) data)[p] = buffer[tail]
read_copy(r) ==
    /\ pc[r] = "gr_copy"
    /\ data' = [data EXCEPT ![r][p[r]] = buffer[read_slot(tail[r], p[r])]]
    /\ pc' = [pc EXCEPT ![r] = "gr_store_tail"]
    /\ UNCHANGED <<lifecycle, shared, isr_locals, max, wait, head, tail, p,
                   pulses_given, printk_too_small, out, ret, history>>

\* the value the copy loop stores to buffer_tail in iteration k
read_new_tail(t, k) == NextIndex(t)

\* smp_store_release(&buffer_tail, (tail + 1) & (BUFFER_SIZE - 1)); p++
read_store_tail(r) ==
    /\ pc[r] = "gr_store_tail"
    /\ buffer_tail' = read_new_tail(tail[r], p[r])
    /\ released' = Release(released, buffer_tail, buffer_tail')
    /\ p' = [p EXCEPT ![r] = p[r] + 1]
    /\ pc' = [pc EXCEPT ![r] =
                IF p[r] + 1 < pulses_given[r]
                THEN "gr_copy" ELSE "gr_spin_unlock"]
    /\ UNCHANGED <<lifecycle, buffer, buffer_head, producer_lock, consumer_lock,
                   geiger_irq, now, isr_locals, max, wait, head, tail,
                   pulses_given,
                   printk_too_small, data, out, ret, accepted, seen, quiet>>

\* spin_unlock(&consumer_lock); return pulses_given * sizeof(struct timespec)
read_spin_unlock(r) ==
    /\ pc[r] = "gr_spin_unlock"
    /\ consumer_lock' = 0
    /\ ret' = [ret EXCEPT ![r] = pulses_given[r] * SizeofTimespec]
    /\ pc' = [pc EXCEPT ![r] = "gr_done"]
    /\ UNCHANGED <<lifecycle, buffer, buffer_head, buffer_tail, producer_lock,
                   geiger_irq, now, isr_locals, max, wait, head, tail, p,
                   pulses_given, printk_too_small, data, out, history>>

geiger_read ==
    \E r \in Readers :
        \/ \E m \in ReadSizes, w \in BOOLEAN : read_call(r, m, w)
        \/ read_spin_lock(r)
        \/ read_load_head(r)
        \/ read_load_tail(r)
        \/ read_copy(r)
        \/ read_store_tail(r)
        \/ read_spin_unlock(r)

\* the caller takes the result; the call's locals go out of scope
reader_return(r) ==
    /\ pc[r] \in {"dp_done", "dr_done", "gr_done"}
    /\ pc' = [pc EXCEPT ![r] = "idle"]
    /\ max' = [max EXCEPT ![r] = 0]
    /\ wait' = [wait EXCEPT ![r] = FALSE]
    /\ head' = [head EXCEPT ![r] = 0]
    /\ tail' = [tail EXCEPT ![r] = 0]
    /\ p' = [p EXCEPT ![r] = 0]
    /\ pulses_given' = [pulses_given EXCEPT ![r] = 0]
    /\ printk_too_small' = [printk_too_small EXCEPT ![r] = FALSE]
    /\ data' = [data EXCEPT ![r] = CleanData]
    /\ out' = [out EXCEPT ![r] = -1]
    /\ ret' = [ret EXCEPT ![r] = 0]
    /\ seen' = [seen EXCEPT ![r] = NotSeen]
    /\ quiet' = [quiet EXCEPT ![r] = FALSE]
    /\ UNCHANGED <<lifecycle, shared, isr_locals, accepted, released>>

hwrng_return == \E r \in Readers : reader_return(r)

Next ==
    \/ geiger_isr
    \/ geiger_data_present
    \/ geiger_data_read
    \/ geiger_read
    \/ hwrng_return

Spec == Init /\ [][Next]_vars

(***************************************************************************)
(* Fairness of the producer alone: an invocation of geiger_isr that has    *)
(* been entered keeps being scheduled; no reader step is ever required.    *)
(***************************************************************************)
\* the steps of an entered invocation, lines 158-172
isr_run(i) ==
    \/ isr_spin_lock(i)
    \/ isr_load_head(i)
    \/ isr_load_tail(i)
    \/ isr_store_slot(i)
    \/ isr_publish(i)
    \/ isr_spin_unlock(i)
    \/ isr_return(i)

SpecProducerFair ==
    Init /\ [][Next]_vars /\ \A i \in Producers : WF_vars(isr_run(i))

(***************************************************************************)
(* The core beyond one producer and one reader: two invocations of         *)
(* geiger_isr and two callers of geiger_data_read, every step interleaved. *)
(***************************************************************************)
\* the module in service with two contexts on each side
InitSmp ==
    /\ InitRing
    /\ InitContexts(SmpProducers, SmpReaders)
    /\ geiger_irq = AssignedIrq
    /\ mod_pc = "returned"
    /\ page = "allocated"
    /\ gpio = "requested"
    /\ irq_line = "requested"
    /\ hwrng = "registered"
    /\ init_ret = 0

geiger_isr_smp ==
    \E i \in SmpProducers :
        \/ now < SmpPulses /\ isr_entry(i, AssignedIrq)
        \/ isr_run(i)

geiger_data_read_smp ==
    \E r \in SmpReaders :
        \/ data_read_call(r)
        \/ data_read_spin_lock(r)
        \/ data_read_load_head(r)
        \/ data_read_load_tail(r)
        \/ data_read_copy(r)
        \/ data_read_store_tail(r)
        \/ data_read_spin_unlock(r)
        \/ reader_return(r)

NextSmp ==
    \/ geiger_isr_smp
    \/ geiger_data_read_smp

SpecSmp == InitSmp /\ [][NextSmp]_vars

(***************************************************************************)
(* krad_init and krad_exit, one step per kernel call.  free_irq returns    *)
(* only when no handler invocation is in progress, and hwrng_unregister    *)
(* only when no call into the hwrng entry points is.                       *)
(***************************************************************************)
ring_state == <<buffer, buffer_head, buffer_tail, producer_lock,
                consumer_lock, now>>

ReadersIdle == \A r \in Readers : pc[r] = "idle"

\* buffer = __get_free_page(GFP_KERNEL); if(!buffer) return ENOMEM
init_get_free_page(ok) ==
    /\ mod_pc = "unloaded"
    /\ IF ok
       THEN /\ page' = "allocated"
            /\ mod_pc' = "gpio_request_one"
            /\ init_ret' = init_ret
       ELSE /\ page' = page
            /\ mod_pc' = "returned"
            /\ init_ret' = ENOMEM
    /\ UNCHANGED <<ring_state, geiger_irq, gpio, irq_line, hwrng,
                   isr_locals, rd_locals, history>>

\* ret = gpio_request_one(...); if(ret) goto fail1
init_gpio_request_one(rc) ==
    /\ mod_pc = "gpio_request_one"
    /\ init_ret' = rc
    /\ IF rc = 0
       THEN /\ gpio' = "requested"
            /\ mod_pc' = "gpio_to_irq"
       ELSE /\ gpio' = gpio
            /\ mod_pc' = "fail1"
    /\ UNCHANGED <<ring_state, geiger_irq, page, irq_line, hwrng,
                   isr_locals, rd_locals, history>>

\* ret = gpio_to_irq(...); if(ret < 0) goto fail2; geiger_irq = ret
init_gpio_to_irq(rc) ==
    /\ mod_pc = "gpio_to_irq"
    /\ init_ret' = rc
    /\ IF rc < 0
       THEN /\ geiger_irq' = geiger_irq
            /\ mod_pc' = "fail2"
       ELSE /\ geiger_irq' = rc
            /\ mod_pc' = "request_irq"
    /\ UNCHANGED <<ring_state, page, gpio, irq_line, hwrng,
                   isr_locals, rd_locals, history>>

\* ret = request_irq(geiger_irq, geiger_isr, ...); if(ret) goto fail2
init_request_irq(rc) ==
    /\ mod_pc = "request_irq"
    /\ init_ret' = rc
    /\ IF rc = 0
       THEN /\ irq_line' = "requested"
            /\ mod_pc' = "hwrng_register"
       ELSE /\ irq_line' = irq_line
            /\ mod_pc' = "fail2"
    /\ UNCHANGED <<ring_state, geiger_irq, page, gpio, hwrng,
                   isr_locals, rd_locals, history>>

\* ret = hwrng_register(&geiger_rng); if(ret) goto fail3; return 0
init_hwrng_register(rc) ==
    /\ mod_pc = "hwrng_register"
    /\ init_ret' = rc
    /\ IF rc = 0
       THEN /\ hwrng' = "registered"
            /\ mod_pc' = "returned"
       ELSE /\ hwrng' = hwrng
            /\ mod_pc' = "fail3"
    /\ UNCHANGED <<ring_state, geiger_irq, page, gpio, irq_line,
                   isr_locals, rd_locals, history>>

\* fail3: free_irq(geiger_irq, NULL)
init_fail3 ==
    /\ mod_pc = "fail3"
    /\ ProducersIdle
    /\ irq_line' = "free"
    /\ mod_pc' = "fail2"
    /\ UNCHANGED <<ring_state, geiger_irq, page, gpio, hwrng, init_ret,
                   isr_locals, rd_locals, history>>

\* fail2: gpio_free(geiger_pulse_pin)
init_fail2 ==
    /\ mod_pc = "fail2"
    /\ gpio' = "free"
    /\ mod_pc' = "fail1"
    /\ UNCHANGED <<ring_state, geiger_irq, page, irq_line, hwrng, init_ret,
                   isr_locals, rd_locals, history>>

\* fail1: return ret
init_fail1 ==
    /\ mod_pc = "fail1"
    /\ mod_pc' = "returned"
    /\ UNCHANGED <<ring_state, geiger_irq, page, gpio, irq_line, hwrng,
                   init_ret, isr_locals, rd_locals, history>>

krad_init ==
    \/ \E ok \in BOOLEAN : init_get_free_page(ok)
    \/ \E rc \in {0} \cup Errnos : init_gpio_request_one(rc)
    \/ \E rc \in {AssignedIrq} \cup Errnos : init_gpio_to_irq(rc)
    \/ \E rc \in {0} \cup Errnos : init_request_irq(rc)
    \/ \E rc \in {0} \cup Errnos : init_hwrng_register(rc)
    \/ init_fail3
    \/ init_fail2
    \/ init_fail1

\* hwrng_unregister(&geiger_rng); the loader runs krad_exit only for a
\* module whose init did not return a negative value
exit_hwrng_unregister ==
    /\ mod_pc = "returned"
    /\ init_ret >= 0
    /\ ReadersIdle
    /\ hwrng' = "unregistered"
    /\ mod_pc' = "exit_free_irq"
    /\ UNCHANGED <<ring_state, geiger_irq, page, gpio, irq_line, init_ret,
                   isr_locals, rd_locals, history>>

\* krad_exit going on without free_irq
exit_free_irq_forgotten ==
    /\ mod_pc = "exit_free_irq"
    /\ mod_pc' = "exit_gpio_free"
    /\ UNCHANGED <<ring_state, geiger_irq, page, gpio, irq_line, hwrng,
                   init_ret, isr_locals, rd_locals, history>>

\* free_irq(geiger_irq, NULL)
exit_free_irq ==
    /\ mod_pc = "exit_free_irq"
    /\ ProducersIdle
    /\ irq_line' = "free"
    /\ mod_pc' = "exit_gpio_free"
    /\ UNCHANGED <<ring_state, geiger_irq, page, gpio, hwrng, init_ret,
                   isr_locals, rd_locals, history>>

\* gpio_free(geiger_pulse_pin)
exit_gpio_free ==
    /\ mod_pc = "exit_gpio_free"
    /\ gpio' = "free"
    /\ mod_pc' = "exit_free_page"
    /\ UNCHANGED <<ring_state, geiger_irq, page, irq_line, hwrng, init_ret,
                   isr_locals, rd_locals, history>>

\* free_page((unsigned long) buffer)
exit_free_page ==
    /\ mod_pc = "exit_free_page"
    /\ page' = IF page = "allocated" THEN "released" ELSE page
    /\ mod_pc' = "exited"
    /\ UNCHANGED <<ring_state, geiger_irq, gpio, irq_line, hwrng, init_ret,
                   isr_locals, rd_locals, history>>

krad_exit ==
    \/ exit_hwrng_unregister
    \/ exit_free_irq
    \/ exit_gpio_free
    \/ exit_free_page

\* the module before insmod
InitLife ==
    /\ InitStatics
    /\ geiger_irq = -1
    /\ mod_pc = "unloaded"
    /\ page = "none"
    /\ gpio = "free"
    /\ irq_line = "free"
    /\ hwrng = "unregistered"
    /\ init_ret = 0

NextLife ==
    \/ krad_init
    \/ krad_exit
    \/ geiger_isr
    \/ geiger_data_present
    \/ geiger_data_read
    \/ geiger_read
    \/ hwrng_return

\* one load and unload of the module, with the ring in service in between
SpecLife == InitLife /\ [][NextLife]_vars

(***************************************************************************)
(* Typing of the state.                                                    *)
(***************************************************************************)
TypeOK ==
    /\ buffer_head \in Slots
    /\ buffer_tail \in Slots
    /\ producer_lock \in {0, 1}
    /\ consumer_lock \in {0, 1}
    /\ now \in 0 .. MaxPulses

(***************************************************************************)
(* Positions of a call inside each entry point.                            *)
(***************************************************************************)
InRead == {"gr_spin_lock", "gr_load_head", "gr_load_tail", "gr_copy",
           "gr_store_tail", "gr_spin_unlock"}

InPresent == {"dp_spin_lock", "dp_load_head", "dp_load_tail",
              "dp_spin_unlock"}

\* positions of geiger_read after it has loaded both cursors
ReadLoaded == {"gr_copy", "gr_store_tail", "gr_spin_unlock"}

\* no producer ran between the entry of r's call and now
Undisturbed(r) == quiet[r] /\ ProducersIdle

\* the first n clock readings, in order
FirstPulses(n) == [k \in 1 .. n |-> CURRENT_TIME(k)]

(***************************************************************************)
(* Claims.                                                                 *)
(***************************************************************************)

\* C1: in every reachable state the number of samples published and not
\* yet released equals the occupancy (buffer_head - buffer_tail) mod
\* BUFFER_SIZE and is at most BUFFER_SIZE - 1, and geiger_data_present
\* never returns BUFFER_SIZE * sizeof(struct timespec).
C1_CapacityInvariant ==
    /\ Len(accepted) - released = Occupancy
    /\ Len(accepted) - released <= BUFFER_SIZE - 1
    /\ \A r \in Readers :
          pc[r] = "dp_done" => ret[r] < BUFFER_SIZE * SizeofTimespec

\* C1 witness: the buffer is full and geiger_data_present has reported it
C1_Witness ==
    \E r \in Readers :
        /\ pc[r] = "dp_done"
        /\ ret[r] = (BUFFER_SIZE - 1) * SizeofTimespec
        /\ Len(accepted) - released = BUFFER_SIZE - 1

\* C2: after N samples were accepted into an empty buffer with no reads in
\* between (N <= BUFFER_SIZE - 1), a geiger_read with max sized for N
\* samples, undisturbed by the producer, leaves exactly those N samples in
\* the caller's buffer in push order.
C2_FifoDrain ==
    \A r \in Readers :
        ( /\ pc[r] = "gr_done"
          /\ Undisturbed(r)
          /\ seen[r].live = FirstPulses(now)
          /\ max[r] = Len(seen[r].live) * SizeofTimespec )
        => /\ ret[r] = max[r]
           /\ \A k \in 1 .. Len(seen[r].live) :
                 data[r][k - 1] = seen[r].live[k]

\* C3: a geiger_read entered with occupancy k and max sized for m >= 1
\* whole samples, undisturbed by the producer, leaves occupancy
\* k - min(k, m).
C3_PartialSatisfaction ==
    \A r \in Readers :
        ( /\ pc[r] = "gr_done"
          /\ Undisturbed(r)
          /\ max[r] >= SizeofTimespec )
        => Occupancy = Len(seen[r].live)
                         - Min(Len(seen[r].live), max[r] \div SizeofTimespec)

\* C4: geiger_read returns min(floor(max / sizeof), occupancy observed
\* when it loaded the cursors) * sizeof: a whole number of samples, at most
\* max bytes and at most the samples then present, whatever the producer
\* does during the call.
C4_ReadReturnValue ==
    \A r \in Readers :
        pc[r] = "gr_done" =>
            /\ ret[r] = Min(max[r] \div SizeofTimespec, Len(seen[r].live))
                          * SizeofTimespec
            /\ ret[r] % SizeofTimespec = 0
            /\ ret[r] <= max[r]
            /\ ret[r] <= Len(seen[r].live) * SizeofTimespec

\* C4 witness: a partial read during which the producer published
C4_Witness ==
    \E r \in Readers :
        /\ pc[r] = "gr_done"
        /\ ret[r] = SizeofTimespec
        /\ max[r] > 2 * SizeofTimespec
        /\ ~quiet[r]
        /\ buffer_head # head[r]

\* C5: every step of a geiger_isr invocation that found the buffer full
\* (occupancy BUFFER_SIZE - 1 on the cursors it loaded) leaves the slots,
\* buffer_head and buffer_tail unchanged.
C5_FullPushNoEffect ==
    [][ \A i \in Producers :
          ( /\ isr_pc[i] \in {"store_slot", "spin_unlock", "return"}
            /\ isr_pc'[i] # isr_pc[i]
            /\ CIRC_CNT(isr_head[i], isr_tail[i], BUFFER_SIZE)
                  = BUFFER_SIZE - 1 )
          => /\ buffer' = buffer
             /\ buffer_head' = buffer_head
             /\ buffer_tail' = buffer_tail
             /\ accepted' = accepted ]_vars

\* C5 witness: an invocation has just been turned away by a full buffer
C5_Witness ==
    \E i \in Producers :
        /\ isr_pc[i] = "spin_unlock"
        /\ CIRC_CNT(isr_head[i], isr_tail[i], BUFFER_SIZE) = BUFFER_SIZE - 1
        /\ Occupancy = BUFFER_SIZE - 1
        /\ isr_t[i] \notin { accepted[k] : k \in 1 .. Len(accepted) }

\* C6: after BUFFER_SIZE invocations of geiger_isr on an empty buffer with
\* nothing released, exactly the first BUFFER_SIZE - 1 samples are stored,
\* in push order; the newest one is the one dropped.
C6_NewestDropped ==
    ( /\ now = BUFFER_SIZE
      /\ released = 0
      /\ \A i \in Producers : isr_pc[i] = "idle" )
    => /\ Occupancy = BUFFER_SIZE - 1
       /\ Live = FirstPulses(BUFFER_SIZE - 1)
       /\ accepted = FirstPulses(BUFFER_SIZE - 1)

\* C6 witness: BUFFER_SIZE invocations have completed and nothing was read
C6_Witness ==
    /\ now = BUFFER_SIZE
    /\ released = 0
    /\ \A i \in Producers : isr_pc[i] = "idle"
    /\ buffer_tail = 0

\* C7: every step of a geiger_read called with max < sizeof(struct
\* timespec) leaves buffer_head, buffer_tail and the caller's buffer
\* unchanged, releases nothing, and the call returns 0, whatever the
\* occupancy.
C7_TooSmallRead ==
    [][ \A r \in Readers :
          ( /\ pc[r] \in InRead
            /\ pc'[r] # pc[r]
            /\ max[r] < SizeofTimespec )
          => /\ buffer_head' = buffer_head
             /\ buffer_tail' = buffer_tail
             /\ released' = released
             /\ data'[r] = data[r]
             /\ (pc'[r] = "gr_done" => ret'[r] = 0) ]_vars

\* C7 witness: a too-small read has returned while the buffer is full
C7_Witness ==
    \E r \in Readers :
        /\ pc[r] = "gr_done"
        /\ max[r] = SizeofTimespec - 1
        /\ ret[r] = 0
        /\ data[r] = CleanData
        /\ Occupancy = BUFFER_SIZE - 1

\* C8: geiger_data_read that observed occupancy >= 1 releases exactly one
\* sample, the oldest, hands out its nanosecond field cast to u32 and
\* returns 4; on an empty buffer it returns 0 and leaves buffer_tail and
\* the caller's u32 unchanged.
C8_LegacyRead ==
    \A r \in Readers :
        pc[r] = "dr_done" =>
            IF Len(seen[r].live) >= 1
            THEN /\ ret[r] = SizeofU32
                 /\ out[r] = CastU32(Head(seen[r].live).tv_nsec)
                 /\ released = seen[r].released + 1
                 /\ buffer_tail = (tail[r] + 1) % BUFFER_SIZE
            ELSE /\ ret[r] = 0
                 /\ out[r] = -1
                 /\ released = seen[r].released
                 /\ buffer_tail = tail[r]

\* C8 witness: the legacy read has taken the oldest of several samples
\* from the last slot, wrapping buffer_tail to 0
C8_Witness ==
    \E r \in Readers :
        /\ pc[r] = "dr_done"
        /\ ret[r] = SizeofU32
        /\ Len(seen[r].live) >= 2
        /\ out[r] = CURRENT_TIME(BUFFER_SIZE).tv_nsec
        /\ tail[r] = BUFFER_SIZE - 1
        /\ buffer_tail = 0

\* C9: no step of geiger_data_present changes buffer_head, buffer_tail or
\* a slot, and it returns the occupancy it observed times
\* sizeof(struct timespec), for either value of wait.
C9_PresentReadOnly ==
    [][ \A r \in Readers :
          ( /\ pc[r] \in InPresent
            /\ pc'[r] # pc[r] )
          => /\ buffer_head' = buffer_head
             /\ buffer_tail' = buffer_tail
             /\ buffer' = buffer
             /\ released' = released
             /\ (pc'[r] = "dp_done" =>
                    ret'[r] = Len(seen[r].live) * SizeofTimespec) ]_vars

\* C9 witness: a call with wait set has reported two stored samples
C9_Witness ==
    \E r \in Readers :
        /\ pc[r] = "dp_done"
        /\ wait[r]
        /\ ret[r] = 2 * SizeofTimespec
        /\ buffer_tail # 0

\* C10: a geiger_read that observed an empty buffer goes straight to its
\* return without copying, changes neither buffer_head nor buffer_tail and
\* returns 0, for any max and either value of wait.
C10_EmptyRead ==
    [][ \A r \in Readers :
          ( /\ pc[r] \in ({"gr_load_tail"} \cup ReadLoaded)
            /\ pc'[r] # pc[r]
            /\ seen[r].live = << >> )
          => /\ buffer_head' = buffer_head
             /\ buffer_tail' = buffer_tail
             /\ data'[r] = data[r]
             /\ (pc[r] = "gr_load_tail" => pc'[r] = "gr_spin_unlock")
             /\ (pc'[r] = "gr_done" => ret'[r] = 0) ]_vars

\* C10 witness: a read asked to wait for two samples has returned 0 from
\* an empty buffer although no producer ran
C10_Witness ==
    \E r \in Readers :
        /\ pc[r] = "gr_done"
        /\ wait[r]
        /\ max[r] = 2 * SizeofTimespec
        /\ seen[r].live = << >>
        /\ ret[r] = 0
        /\ Undisturbed(r)

\* C11: when krad_init returns a negative value, every resource it had
\* acquired (the buffer page, the GPIO, the IRQ, the hwrng registration) has
\* been released.
C11_InitFailureReleasesAll ==
    (mod_pc = "returned" /\ init_ret < 0)
    => /\ page # "allocated"
       /\ gpio = "free"
       /\ irq_line = "free"
       /\ hwrng = "unregistered"

\* a context is executing geiger_isr or one of the hwrng entry points
ContextRunning ==
    \/ \E i \in Producers : isr_pc[i] # "idle"
    \/ \E r \in Readers : pc[r] # "idle"

\* C20: whenever geiger_isr or an hwrng entry point can be entered or is
\* running (the IRQ is requested, the hwrng is registered, or a context is
\* inside one of them), the buffer page is allocated: none before
\* __get_free_page, none after free_page.
C20_PageOutlivesUsers ==
    (irq_line = "requested" \/ hwrng = "registered" \/ ContextRunning)
    => page = "allocated"

\* C20 witness: krad_exit waits in free_irq for an invocation that has
\* written its slot, the page still allocated
C20_Witness ==
    /\ mod_pc = "exit_free_irq"
    /\ page = "allocated"
    /\ \E i \in Producers : isr_pc[i] = "publish"

\* C12: geiger_isr never waits on the reader: no step of it touches
\* consumer_lock, no reader step touches producer_lock, and with the
\* producer alone scheduled fairly every entered invocation returns,
\* wherever a reader call is stalled.
C12_IsrNeverWaitsOnReader ==
    /\ [][(\E i \in Producers : isr_run(i))
            => consumer_lock' = consumer_lock]_vars
    /\ [][(geiger_data_present \/ geiger_data_read \/ geiger_read)
            => producer_lock' = producer_lock]_vars
    /\ \A i \in Producers : (isr_pc[i] # "idle") ~> (isr_pc[i] = "idle")

\* C12 witness: a geiger_read call sits inside its consumer_lock section,
\* having loaded head 0, while a second invocation of geiger_isr has run
\* through its whole critical section
C12_Witness ==
    \E i \in Producers, r \in Readers :
        /\ pc[r] = "gr_load_tail"
        /\ consumer_lock = 1
        /\ head[r] = 0
        /\ Len(accepted) = 2
        /\ isr_pc[i] = "return"
        /\ isr_head[i] = 1

\* slot s lies in the cyclic live range [buffer_tail, buffer_head)
InLiveRange(s) == CIRC_CNT(s, buffer_tail, BUFFER_SIZE) < Occupancy

\* r is about to copy from the buffer
AtCopy(r) == pc[r] \in {"gr_copy", "dr_copy"}

\* the slot r copies from in its next copy step
CopiedSlot(r) ==
    IF pc[r] = "gr_copy" THEN read_slot(tail[r], p[r]) ELSE tail[r]

\* C13: every slot a reader call copies out lies in the cyclic live range
\* [buffer_tail, buffer_head) at the moment of the copy, in every iteration
\* of geiger_read's copy loop.
C13_CopiedSlotIsLive ==
    \A r \in Readers : AtCopy(r) => InLiveRange(CopiedSlot(r))

\* r has copies from the buffer still to make in this call
StillCopies(r) ==
    \/ AtCopy(r)
    \/ pc[r] = "gr_store_tail" /\ p[r] + 1 < pulses_given[r]

\* C14: whatever the interleaving of loads and stores, a step that stores
\* into a slot of the buffer stores outside [buffer_tail, buffer_head) and
\* not into the slot an in-progress reader call copies from.
C14_IsrWritesOnlyFreeSlots ==
    [][\A s \in Slots :
          buffer'[s] # buffer[s] =>
              /\ ~InLiveRange(s)
              /\ \A r \in Readers :
                    StillCopies(r) => read_slot(tail[r], p[r]) # s]_vars

\* C14 witness: geiger_isr is about to store into the slot just behind the
\* one geiger_read copies from in the second pass of its loop
C14_Witness ==
    \E i \in Producers, r \in Readers :
        /\ isr_pc[i] = "store_slot"
        /\ isr_has_space(i)
        /\ pc[r] = "gr_copy"
        /\ p[r] = 1
        /\ NextIndex(isr_head[i]) = tail[r]

\* the samples of [buffer_tail, h) as the history has them
PublishedUpTo(h) ==
    SubSeq(accepted, released + 1,
           released + CIRC_CNT(h, buffer_tail, BUFFER_SIZE))

\* C15: geiger_isr has stored its sample into buffer[head] when it comes to
\* publish buffer_head, so a reader that loaded buffer_head = h finds in
\* every slot of [buffer_tail, h) the completed write of the sample
\* accepted there, and no slot it copies has a write pending.
C15_StoreBeforePublish ==
    /\ \A i \in Producers :
          isr_pc[i] = "publish" =>
              buffer[isr_head[i]] = isr_t[i] /\ buffer_head = isr_head[i]
    /\ \A r \in Readers :
          pc[r] \in {"gr_load_tail", "dr_load_tail", "dp_load_tail"}
                    \cup ReadLoaded \cup {"dr_copy", "dr_store_tail"} =>
              \A k \in 1 .. CIRC_CNT(head[r], buffer_tail, BUFFER_SIZE) :
                  /\ k <= Len(PublishedUpTo(head[r]))
                  /\ buffer[BitAnd(buffer_tail + k - 1, BUFFER_SIZE - 1)]
                       = PublishedUpTo(head[r])[k]
    /\ \A r \in Readers, i \in Producers :
          (AtCopy(r) /\ isr_pc[i] = "store_slot" /\ isr_has_space(i))
              => isr_head[i] # CopiedSlot(r)

\* C15 witness: a reader has loaded head h while geiger_isr, its store into
\* slot h done, has still to publish
C15_Witness ==
    \E i \in Producers, r \in Readers :
        /\ pc[r] = "gr_load_tail"
        /\ isr_pc[i] = "publish"
        /\ isr_head[i] = head[r]
        /\ buffer_head = head[r]
        /\ Occupancy >= 1

\* C16: whatever the mix of geiger_data_read and geiger_read calls and of
\* pushes between them, each call hands out the samples that follow, in
\* the sequence accepted by geiger_isr, the ones handed out and released
\* by the calls before it, and releases exactly those: nothing twice,
\* nothing skipped, nothing out of order.
C16_MixedReadsDeliverPrefix ==
    \A r \in Readers :
        /\ pc[r] = "gr_done" =>
              /\ \A k \in 1 .. (ret[r] \div SizeofTimespec) :
                    data[r][k - 1] = accepted[seen[r].released + k]
              /\ released = seen[r].released + (ret[r] \div SizeofTimespec)
        /\ (pc[r] = "dr_done" /\ ret[r] = SizeofU32) =>
              /\ out[r] = data_read_value(accepted[seen[r].released + 1])
              /\ released = seen[r].released + 1

\* C17: buffer_head changes only in the publish step of geiger_isr and
\* buffer_tail only in the store steps of geiger_data_read and geiger_read;
\* no reader step changes buffer_head, no geiger_isr step changes
\* buffer_tail, and geiger_data_present changes neither.
C17_CursorOwnership ==
    [][/\ buffer_head' # buffer_head => \E i \in Producers : isr_publish(i)
       /\ buffer_tail' # buffer_tail =>
             \E r \in Readers :
                 data_read_store_tail(r) \/ read_store_tail(r)
       /\ (geiger_data_present \/ geiger_data_read \/ geiger_read
             \/ hwrng_return) => buffer_head' = buffer_head
       /\ geiger_isr => buffer_tail' = buffer_tail
       /\ geiger_data_present =>
             buffer_head' = buffer_head /\ buffer_tail' = buffer_tail]_vars

\* C17 witness: a geiger_data_read call has moved buffer_tail and left
\* buffer_head where it loaded it, with the buffer full before the call
C17_Witness ==
    \E r \in Readers :
        /\ pc[r] = "dr_done"
        /\ ret[r] = SizeofU32
        /\ buffer_head = head[r]
        /\ buffer_tail = NextIndex(tail[r])
        /\ Len(seen[r].live) = BUFFER_SIZE - 1

\* C18: both cursors stay in 0 .. BUFFER_SIZE - 1, each change of a cursor
\* is +1 modulo BUFFER_SIZE (BUFFER_SIZE - 1 wraps to 0), and every index
\* used on the buffer is in bounds.
C18_CursorsInBounds ==
    /\ [](/\ buffer_head \in Slots
          /\ buffer_tail \in Slots
          /\ \A i \in Producers :
                isr_pc[i] = "store_slot" => isr_head[i] \in Slots
          /\ \A r \in Readers : AtCopy(r) => CopiedSlot(r) \in Slots)
    /\ [][/\ buffer_head' # buffer_head =>
                buffer_head' = (buffer_head + 1) % BUFFER_SIZE
          /\ buffer_tail' # buffer_tail =>
                buffer_tail' = (buffer_tail + 1) % BUFFER_SIZE]_vars

\* C18 witness: both cursors have gone once round the buffer
C18_Witness ==
    /\ Len(accepted) = BUFFER_SIZE
    /\ released = BUFFER_SIZE
    /\ buffer_head = 0
    /\ buffer_tail = 0

\* positions of geiger_isr between taking and dropping producer_lock
IsrLocked == {"load_head", "load_tail", "store_slot", "publish", "spin_unlock"}

\* C19: with two geiger_isr invocations and two geiger_data_read calls
\* interleaved, no two invocations are between load and publish together
\* (so never store into the same slot), the samples accepted and not yet
\* released are in the buffer in order (none lost), each completed
\* geiger_data_read has handed out the sample next in the accepted
\* sequence when it loaded the cursors and no two calls the same one, and
\* the capacity invariant holds.
C19_SafeBeyondOneEachSide ==
    /\ \A i \in SmpProducers, j \in SmpProducers :
          (i # j /\ isr_pc[i] \in IsrLocked) => isr_pc[j] \notin IsrLocked
    /\ Live = Pending
    /\ \A r \in SmpReaders :
          /\ pc[r] \in {"dr_copy", "dr_store_tail"} =>
                released = seen[r].released
          /\ (pc[r] = "dr_done" /\ ret[r] = SizeofU32) =>
                out[r] = data_read_value(accepted[seen[r].released + 1])
    /\ \A r \in SmpReaders, q \in SmpReaders :
          ( /\ r # q
            /\ pc[r] = "dr_done" /\ ret[r] = SizeofU32
            /\ pc[q] = "dr_done" /\ ret[q] = SizeofU32 )
          => seen[r].released # seen[q].released
    /\ Len(accepted) - released = Occupancy
    /\ Occupancy <= BUFFER_SIZE - 1

\* C19 witness: one invocation has stored and is about to publish while
\* the other waits for producer_lock, and one geiger_data_read has handed
\* out a sample while the other is about to copy the next one
C19_Witness ==
    \E i \in SmpProducers, j \in SmpProducers,
       r \in SmpReaders, q \in SmpReaders :
        /\ isr_pc[i] = "publish"
        /\ isr_pc[j] = "spin_lock"
        /\ pc[r] = "dr_done"
        /\ ret[r] = SizeofU32
        /\ pc[q] = "dr_copy"
        /\ seen[q].released = seen[r].released + 1

\* C21: geiger_read reports the request-too-small condition exactly when
\* max < sizeof(struct timespec); a call with max of at least one sample
\* that finds the buffer empty returns 0 without reporting it.
C21_TooSmallExactly ==
    \A r \in Readers :
        pc[r] = "gr_done" =>
            /\ printk_too_small[r] <=> max[r] < SizeofTimespec
            /\ (max[r] >= SizeofTimespec /\ seen[r].live = << >>) =>
                  ret[r] = 0 /\ ~printk_too_small[r]

====
